---------------------------- MODULE Spec2Model ----------------------------
(***************************************************************************)
(* A model of ffevaluation/ffevaluate.py: the FFEvaluate class (its        *)
(* constructor and calculate), the topology indexer init, calculateSets,   *)
(* and the numba kernels _ispaired, _insets, _ffevaluate, _getSigmaEpsilon,*)
(* _evaluate_lj, _evaluate_harmonic_bonds, _evaluate_elec,                 *)
(* _evaluate_angles and _evaluate_torsion.                                 *)
(*                                                                         *)
(* Numbers.  A float of the program is held in fixed point: the integer n  *)
(* stands for n / FP.  Products, quotients and square roots round toward   *)
(* zero to the next multiple of 1 / FP, as a float operation rounds to the *)
(* next representable number.  Angles are radians in the same fixed point; *)
(* cos, sin and acos are evaluated on a grid of TrigSteps steps per half   *)
(* turn.  NaN, the padding value of the packed float arrays, is a reserved *)
(* number outside the range of every value.                                *)
(*                                                                         *)
(* Arrays.  A numpy array is a sequence (of sequences); the program's      *)
(* 0-based index k is position k + 1.  Atom indexes stay 0-based.          *)
(***************************************************************************)
EXTENDS Integers, Sequences, FiniteSets, TLC

(***************************************************************************)
(* Fixed-point arithmetic                                                  *)
(***************************************************************************)
FP == 16

NaN == -999999

Abs(a) == IF a < 0 THEN -a ELSE a

Sgn(a) == IF a < 0 THEN -1 ELSE IF a > 0 THEN 1 ELSE 0

\* integer quotient rounded toward zero; 0 when d = 0 (callers test d first)
TDiv(n, d) ==
    IF d = 0 THEN 0 ELSE Sgn(n) * Sgn(d) * (Abs(n) \div Abs(d))

Mul(a, b) == TDiv(a * b, FP)

Div(a, b) == TDiv(a * FP, b)

\* floor of the square root of the natural number n
ISqrt(n) == CHOOSE r \in 0..(n + 1) : r * r <= n /\ (r + 1) * (r + 1) > n

Sqrt(a) == ISqrt(a * FP)

Num(n) == n * FP

\* math.pi
PI == 50

\* grid of the trigonometric functions: steps per half turn
TrigSteps == 6

\* cos of the grid angles 0, pi/6, ..., 11 pi/6
CosTable == <<16, 14, 8, 0, -8, -14, -16, -14, -8, 0, 8, 14>>

\* the grid step nearest to the angle x
TrigIdx(x) == ((2 * x * TrigSteps + PI) \div (2 * PI)) % (2 * TrigSteps)

Cos(x) == CosTable[TrigIdx(x) + 1]

Sin(x) == CosTable[((TrigIdx(x) + ((3 * TrigSteps) \div 2)) % (2 * TrigSteps)) + 1]

Acos(c) ==
    LET k == CHOOSE k \in 0..TrigSteps :
                 \A m \in 0..TrigSteps :
                     \/ Abs(c - CosTable[k + 1]) < Abs(c - CosTable[m + 1])
                     \/ (Abs(c - CosTable[k + 1]) = Abs(c - CosTable[m + 1]) /\ k <= m)
    IN  (k * PI) \div TrigSteps

Radians(deg) == (deg * PI) \div 180

(***************************************************************************)
(* Vectors and sequences                                                   *)
(***************************************************************************)
Axes == 1..3

Zero3 == <<0, 0, 0>>

VAdd(u, v) == [k \in Axes |-> u[k] + v[k]]

VSub(u, v) == [k \in Axes |-> u[k] - v[k]]

VNeg(u) == [k \in Axes |-> -u[k]]

VScale(c, u) == [k \in Axes |-> Mul(c, u[k])]

\* numbautil.cross and numbautil.dot
cross(u, v) ==
    <<Mul(u[2], v[3]) - Mul(u[3], v[2]),
      Mul(u[3], v[1]) - Mul(u[1], v[3]),
      Mul(u[1], v[2]) - Mul(u[2], v[1])>>

dot(u, v) == Mul(u[1], v[1]) + Mul(u[2], v[2]) + Mul(u[3], v[3])

RECURSIVE SumSeq(_)
SumSeq(s) == IF s = <<>> THEN 0 ELSE Head(s) + SumSeq(Tail(s))

Range(s) == {s[k] : k \in 1..Len(s)}

Reverse(s) == [k \in 1..Len(s) |-> s[Len(s) + 1 - k]]

Min2(a, b) == IF a <= b THEN a ELSE b

Max2(a, b) == IF a >= b THEN a ELSE b

RECURSIVE MaxSeq(_)
MaxSeq(s) == IF s = <<>> THEN 0 ELSE Max2(Head(s), MaxSeq(Tail(s)))

\* the elements of a finite set of integers in ascending order
RECURSIVE SortedSeq(_)
SortedSeq(S) ==
    IF S = {} THEN <<>>
    ELSE LET m == CHOOSE x \in S : \A y \in S : x <= y
         IN  <<m>> \o SortedSeq(S \ {m})

\* sorted(list) of a sequence of integers
RECURSIVE Insert(_, _)
Insert(x, s) ==
    IF s = <<>> THEN <<x>>
    ELSE IF x < Head(s) THEN <<x>> \o s
    ELSE <<Head(s)>> \o Insert(x, Tail(s))

RECURSIVE sorted(_)
sorted(s) == IF s = <<>> THEN <<>> ELSE Insert(s[Len(s)], sorted(SubSeq(s, 1, Len(s) - 1)))

(***************************************************************************)
(* Inputs: molecules, parameter sets, coordinates                          *)
(*                                                                         *)
(* An atom type is a number; numeric order stands for the alphabetical     *)
(* order of the type names.  TypeX is the wildcard type 'X'.               *)
(***************************************************************************)
NAtoms == 4

Atoms == 0..(NAtoms - 1)

TypeX == 0

\* per-atom type and charge of the molecules (atoms past the fourth repeat)
AtomTypeOf(i) == IF i % 4 < 2 THEN 1 ELSE 3

ChargeOf(i) == <<8, -8, 4, -4>>[(i % 4) + 1]

Mol(bonds, angles, dihedrals, impropers) ==
    [numAtoms  |-> NAtoms,
     atomtype  |-> [i \in 1..NAtoms |-> AtomTypeOf(i - 1)],
     charge    |-> [i \in 1..NAtoms |-> ChargeOf(i - 1)],
     bonds     |-> bonds,
     angles    |-> angles,
     dihedrals |-> dihedrals,
     impropers |-> impropers]

\* no bonds at all
MolGas == Mol(<<>>, <<>>, <<>>, <<>>)

\* two diatomic molecules
MolPair == Mol(<<<<0, 1>>, <<2, 3>>>>, <<>>, <<>>, <<>>)

\* a chain 0-1-2-3
MolChain ==
    Mol(<<<<0, 1>>, <<1, 2>>, <<2, 3>>>>,
        <<<<0, 1, 2>>, <<1, 2, 3>>>>,
        <<<<0, 1, 2, 3>>>>,
        <<>>)

\* atom 2 bonded to 0, 1 and 3
MolStar ==
    Mol(<<<<0, 2>>, <<1, 2>>, <<2, 3>>>>,
        <<<<0, 2, 1>>, <<0, 2, 3>>, <<1, 2, 3>>>>,
        <<>>,
        <<<<0, 1, 2, 3>>>>)

\* a four-membered ring
MolRing ==
    Mol(<<<<0, 1>>, <<1, 2>>, <<2, 3>>, <<0, 3>>>>,
        <<<<0, 1, 2>>, <<1, 2, 3>>, <<2, 3, 0>>, <<3, 0, 1>>>>,
        <<<<0, 1, 2, 3>>, <<1, 2, 3, 0>>, <<2, 3, 0, 1>>, <<3, 0, 1, 2>>>>,
        <<>>)

\* a three-membered ring 0-1-2 with atom 3 on atom 2
MolTri ==
    Mol(<<<<0, 1>>, <<1, 2>>, <<0, 2>>, <<2, 3>>>>,
        <<<<0, 1, 2>>, <<1, 2, 0>>, <<2, 0, 1>>, <<0, 2, 3>>, <<1, 2, 3>>>>,
        <<<<1, 0, 2, 3>>, <<0, 1, 2, 3>>>>,
        <<<<0, 1, 2, 3>>>>)

BaseMols == {MolGas, MolPair, MolChain, MolStar, MolRing, MolTri}

\* a molecule of natoms atoms
MolOf(natoms, bonds, angles, dihedrals, impropers) ==
    [numAtoms  |-> natoms,
     atomtype  |-> [i \in 1..natoms |-> AtomTypeOf(i - 1)],
     charge    |-> [i \in 1..natoms |-> ChargeOf(i - 1)],
     bonds     |-> bonds,
     angles    |-> angles,
     dihedrals |-> dihedrals,
     impropers |-> impropers]

\* two fused three-membered rings 0-1-2 and 1-2-3: the dihedrals 0-1-2-3 and
\* 0-2-1-3 run over the same four atoms, and the types of the second one
\* (1, 3, 1, 3) are in no dihedral table
MolCage ==
    Mol(<<<<0, 1>>, <<1, 2>>, <<2, 3>>, <<0, 2>>, <<1, 3>>>>,
        <<<<1, 0, 2>>, <<0, 1, 2>>, <<0, 1, 3>>, <<2, 1, 3>>,
          <<0, 2, 1>>, <<0, 2, 3>>, <<1, 2, 3>>, <<1, 3, 2>>>>,
        <<<<0, 1, 2, 3>>, <<0, 2, 1, 3>>>>,
        <<>>)

\* the same molecule with its two dihedrals listed in the other order
MolCageRev == [MolCage EXCEPT !.dihedrals = <<<<0, 2, 1, 3>>, <<0, 1, 2, 3>>>>]

\* a four-membered ring 0-1-3-2 with atom 4 on atom 3: the dihedrals 0-1-3-4
\* and 0-2-3-4 share their end atoms and differ in a middle atom
MolFused ==
    MolOf(NAtoms + 1,
          <<<<0, 1>>, <<1, 3>>, <<3, 4>>, <<0, 2>>, <<2, 3>>>>,
          <<<<0, 1, 3>>, <<1, 3, 4>>, <<1, 3, 2>>, <<2, 3, 4>>, <<0, 2, 3>>, <<1, 0, 2>>>>,
          <<<<0, 1, 3, 4>>, <<0, 2, 3, 4>>>>,
          <<>>)

\* atom 2 bonded to 0, 1 and 3, the improper listing the center first
MolStarOff == [MolStar EXCEPT !.impropers = <<<<2, 0, 1, 3>>>>]

\* atom 2 bonded to 0, 1 and 3, the improper listed from atom 3
MolStarAlt == [MolStar EXCEPT !.impropers = <<<<3, 0, 2, 1>>>>]

\* the four-membered ring with its dihedral 3-0-1-2 listed first
MolRingTurned == [MolRing EXCEPT !.dihedrals = <<<<3, 0, 1, 2>>, <<0, 1, 2, 3>>>>]

IndexMols == {MolCage, MolCageRev, MolFused, MolStarOff, MolStarAlt, MolRingTurned}

\* the same topology with every bonded term listed from its other end
Reversed(m) ==
    [m EXCEPT !.bonds     = [k \in 1..Len(m.bonds) |-> Reverse(m.bonds[k])],
              !.angles    = [k \in 1..Len(m.angles) |-> Reverse(m.angles[k])],
              !.dihedrals = [k \in 1..Len(m.dihedrals) |-> Reverse(m.dihedrals[k])]]

\* the topology with its dihedral number n listed once more at the end
WithRepeat(m, n) == [m EXCEPT !.dihedrals = Append(m.dihedrals, m.dihedrals[n])]

MaxRepeat == 1

RepeatMols ==
    UNION {{WithRepeat(m, n) : n \in 1..Min2(MaxRepeat, Len(m.dihedrals))} :
               m \in BaseMols}

Mols == BaseMols \cup {Reversed(m) : m \in BaseMols} \cup RepeatMols

(***************************************************************************)
(* A parameter set (parmed ParameterSet).  bond_types and angle_types are  *)
(* looked up by exact key only and hold every key with its reverse; the    *)
(* dihedral and improper tables are ordered, as their wildcard scan        *)
(* follows the iteration order.                                            *)
(***************************************************************************)
TypeNames == {1, 3}

AtomType(sig, eps, sig14, eps14) ==
    [sigma |-> sig, epsilon |-> eps, sigma_14 |-> sig14, epsilon_14 |-> eps14]

DihedralType(k, phase, per, scnb, scee) ==
    [phi_k |-> k, phase |-> phase, per |-> per, scnb |-> scnb, scee |-> scee]

Entry(key, val) == [key |-> key, val |-> val]

PrmBase ==
    [atom_types |->
         [t \in TypeNames |->
             IF t = 1 THEN AtomType(24, 16, 24, 8) ELSE AtomType(16, 4, 16, 4)],
     bond_types |->
         [ty \in TypeNames \X TypeNames |->
             [k |-> Num(10 + ty[1] + ty[2]), req |-> FP + 4]],
     angle_types |->
         [ty \in TypeNames \X TypeNames \X TypeNames |->
             [k |-> Num(4 + ty[2]), theteq |-> 120]],
     dihedral_types |->
         <<Entry(<<1, 1, 3, 3>>,
                 <<DihedralType(Num(2), 0, 3, 32, 19),
                   DihedralType(Num(1), 180, 2, 32, 19)>>),
           Entry(<<TypeX, 3, 3, TypeX>>,
                 <<DihedralType(Num(3), 180, 2, 16, 16)>>),
           Entry(<<TypeX, 1, 3, TypeX>>,
                 <<DihedralType(Num(1), 0, 1, 24, 32)>>),
           Entry(<<TypeX, 1, 1, TypeX>>,
                 <<DihedralType(Num(1), 0, 1, 24, 32)>>)>>,
     improper_types |->
         <<Entry(<<1, 1, 3, 3>>, [psi_k |-> Num(5), psi_eq |-> 0])>>,
     improper_periodic_types |->
         <<Entry(<<TypeX, TypeX, 3, 1>>, [phi_k |-> Num(2), phase |-> 180, per |-> 2])>>,
     nbfix_types |->
         <<Entry(<<5, 1>>, <<Num(2), 16, Num(2), 16>>),
           Entry(<<3, 1>>, <<32, 8, 24, 4>>)>>]

\* the same tables without the exact dihedral and improper keys
PrmWild ==
    [PrmBase EXCEPT !.dihedral_types = Tail(PrmBase.dihedral_types),
                    !.improper_types = <<>>]

ParameterSets == {PrmBase, PrmWild}

\* the tables of PrmBase without the bond type (3, 3)
PrmNoBond ==
    [PrmBase EXCEPT
        !.bond_types = [ty \in (TypeNames \X TypeNames) \ {<<3, 3>>} |->
                           PrmBase.bond_types[ty]]]

\* the tables of PrmBase without the improper tables
PrmSparse ==
    [PrmBase EXCEPT !.improper_types = <<>>, !.improper_periodic_types = <<>>]

\* tables in which the stages of the dihedral and improper lookups disagree:
\* wildcard keys listed ahead of the exact and reversed keys they overlap,
\* two wildcard keys that match the same tuple, a wildcard key with an empty
\* parameter list
PrmOrder ==
    [PrmBase EXCEPT
        !.dihedral_types =
            <<Entry(<<TypeX, 3, 1, TypeX>>, <<DihedralType(Num(1), 0, 2, 28, 28)>>),
              Entry(<<TypeX, 1, 3, TypeX>>, <<DihedralType(Num(1), 0, 1, 24, 32)>>),
              Entry(<<TypeX, TypeX, 3, TypeX>>, <<DihedralType(Num(2), 180, 1, 20, 20)>>),
              Entry(<<1, 1, 3, 3>>,
                    <<DihedralType(Num(2), 0, 3, 32, 19),
                      DihedralType(Num(1), 180, 2, 32, 19)>>),
              Entry(<<1, 3, 3, 1>>, <<DihedralType(Num(3), 180, 2, 16, 16)>>),
              Entry(<<TypeX, 1, 1, TypeX>>, <<>>)>>,
        !.improper_types =
            <<Entry(<<TypeX, 1, 3, 3>>, [psi_k |-> Num(3), psi_eq |-> 0]),
              Entry(<<TypeX, 1, 3, TypeX>>, [psi_k |-> Num(4), psi_eq |-> 60]),
              Entry(<<1, 3, 3, 1>>, [psi_k |-> Num(5), psi_eq |-> 60])>>,
        !.improper_periodic_types =
            <<Entry(<<TypeX, TypeX, 3, 3>>, [phi_k |-> Num(1), phase |-> 0, per |-> 3]),
              Entry(<<3, 1, 3, 1>>, [phi_k |-> Num(2), phase |-> 180, per |-> 2])>>,
        !.nbfix_types =
            <<Entry(<<5, 3>>, <<Num(2), 16, Num(2), 16>>),
              Entry(<<1, 3>>, <<40, 12, 28, 6>>),
              Entry(<<3, 1>>, <<32, 8, 24, 4>>),
              Entry(<<3, 3>>, <<36, 10, 20, 2>>)>>]

IndexParameterSets == {PrmBase, PrmWild, PrmNoBond, PrmSparse, PrmOrder}

(***************************************************************************)
(* Topology indexer                                                        *)
(***************************************************************************)
Has(table, key) == \E n \in 1..Len(table) : table[n].key = key

Get(table, key) ==
    table[CHOOSE n \in 1..Len(table) :
              table[n].key = key /\ \A m \in 1..(n - 1) : table[m].key # key].val

Keys(table) == [n \in 1..Len(table) |-> table[n].key]

\* nestedListToArray for a list of flat lists
nestedListToArray(nl, default) ==
    IF Len(nl) = 0 THEN <<<<default>>>>
    ELSE LET width == MaxSeq([n \in 1..Len(nl) |-> Len(nl[n])])
         IN  IF width = 0 THEN [n \in 1..Len(nl) |-> <<default>>]
             ELSE [n \in 1..Len(nl) |->
                     [e \in 1..width |-> IF e <= Len(nl[n]) THEN nl[n][e] ELSE default]]

\* wildcard_substituted: the first key holding 'X' that matches type, or <<>>
wildcard_substituted(type, params) ==
    LET keys == SelectSeq(Keys(params), LAMBDA key : TypeX \in Range(key))
        match(key) == \A i \in 1..Len(key) : key[i] = TypeX \/ key[i] = type[i]
    IN  IF \E n \in 1..Len(keys) : match(keys[n])
        THEN keys[CHOOSE n \in 1..Len(keys) :
                      match(keys[n]) /\ \A m \in 1..(n - 1) : ~match(keys[m])]
        ELSE <<>>

\* the permutations of (0, 1, 2, 3) that keep position 2, in itertools order
ImproperPerms ==
    <<<<0, 1, 2, 3>>, <<0, 3, 2, 1>>, <<1, 0, 2, 3>>,
      <<1, 3, 2, 0>>, <<3, 0, 2, 1>>, <<3, 1, 2, 0>>>>

Permuted(type, p) == [k \in 1..4 |-> type[p[k] + 1]]

\* a faulty body of the loop that tries both stages of the harmonic table
\* before the periodic table
ImproperTryHarmonicFirst(ty, parameters) ==
    LET wi == wildcard_substituted(ty, parameters.improper_types)
        wp == wildcard_substituted(ty, parameters.improper_periodic_types)
    IN  IF Has(parameters.improper_types, ty)
        THEN [found |-> TRUE, tag |-> "improper_types",
              val |-> Get(parameters.improper_types, ty)]
        ELSE IF wi # <<>>
        THEN [found |-> TRUE, tag |-> "improper_types",
              val |-> Get(parameters.improper_types, wi)]
        ELSE IF Has(parameters.improper_periodic_types, ty)
        THEN [found |-> TRUE, tag |-> "improper_periodic_types",
              val |-> Get(parameters.improper_periodic_types, ty)]
        ELSE IF wp # <<>>
        THEN [found |-> TRUE, tag |-> "improper_periodic_types",
              val |-> Get(parameters.improper_periodic_types, wp)]
        ELSE [found |-> FALSE]

\* what one permutation of getImproperParameter's loop returns, or found = FALSE
ImproperTry(ty, parameters) ==
    LET wi == wildcard_substituted(ty, parameters.improper_types)
        wp == wildcard_substituted(ty, parameters.improper_periodic_types)
    IN  IF Has(parameters.improper_types, ty)
        THEN [found |-> TRUE, tag |-> "improper_types",
              val |-> Get(parameters.improper_types, ty)]
        ELSE IF Has(parameters.improper_periodic_types, ty)
        THEN [found |-> TRUE, tag |-> "improper_periodic_types",
              val |-> Get(parameters.improper_periodic_types, ty)]
        ELSE IF wi # <<>>
        THEN [found |-> TRUE, tag |-> "improper_types",
              val |-> Get(parameters.improper_types, wi)]
        ELSE IF wp # <<>>
        THEN [found |-> TRUE, tag |-> "improper_periodic_types",
              val |-> Get(parameters.improper_periodic_types, wp)]
        ELSE [found |-> FALSE]

\* getImproperParameter; found = FALSE stands for its RuntimeError
getImproperParameter(type, parameters) ==
    LET hit(n) == ImproperTry(Permuted(type, ImproperPerms[n]), parameters).found
    IN  IF \E n \in 1..Len(ImproperPerms) : hit(n)
        THEN ImproperTry(
                 Permuted(type,
                          ImproperPerms[CHOOSE n \in 1..Len(ImproperPerms) :
                                            hit(n) /\ \A m \in 1..(n - 1) : ~hit(m)]),
                 parameters)
        ELSE [found |-> FALSE]

\* improperGraph: the neighbours of atom a in the bond graph
Neighbors(bonds, a) ==
    {b \in Atoms : \E n \in 1..Len(bonds) : Range(bonds[n]) = {a, b} /\ a # b}

\* detectImproperCenter: the first listed atom bonded to the three others, or -1
detectImproperCenter(indexes, bonds) ==
    LET isc(n) == Cardinality(Neighbors(bonds, indexes[n]) \cap Range(indexes)) = 3
    IN  IF \E n \in 1..4 : isc(n)
        THEN indexes[CHOOSE n \in 1..4 : isc(n) /\ \A m \in 1..(n - 1) : ~isc(m)]
        ELSE -1

\* np.unique(mol.atomtype, return_inverse = True)
uqtypes(mol) == SortedSeq(Range(mol.atomtype))

IndexIn(seq, x) == (CHOOSE n \in 1..Len(seq) : seq[n] = x) - 1

typeint(mol) == [i \in 1..Len(mol.atomtype) |-> IndexIn(uqtypes(mol), mol.atomtype[i])]

\* tuple(uqtypes[typeint[term]]) for a tuple of atom indexes
TypesOf(mol, term) ==
    [k \in 1..Len(term) |-> uqtypes(mol)[typeint(mol)[term[k] + 1] + 1]]

\* 2 ** (-1 / 6), the factor from rmin to sigma
RminToSigma == 14

NbfixRow(mol, entry) ==
    LET nbf == entry.key
        uq  == uqtypes(mol)
    IN  IF nbf[1] \in Range(uq) /\ nbf[2] \in Range(uq)
        THEN <<IndexIn(uq, nbf[1]), IndexIn(uq, nbf[2]), entry.val[2],
               Mul(entry.val[1], RminToSigma), entry.val[4],
               Mul(entry.val[3], RminToSigma)>>
        ELSE <<-1, -1, -1, -1, -1, -1>>

\* the bonds of mol.bonds, in order, whose lower atom is a
BondsAt(mol, a) == SelectSeq(mol.bonds, LAMBDA bond : sorted(bond)[1] = a)

RECURSIVE Flatten(_)
Flatten(rows) == IF rows = <<>> THEN <<>> ELSE Head(rows) \o Flatten(Tail(rows))

\* a faulty exclusion row that forgets the ends of the angles
ExclRowBondsOnly(mol, a) ==
    SortedSeq({sorted(mol.bonds[n])[2] :
                   n \in {n \in 1..Len(mol.bonds) : sorted(mol.bonds[n])[1] = a}})

\* the 1-2 and 1-3 partners of atom a, as np.unique leaves them
ExclRow(mol, a) ==
    SortedSeq({sorted(mol.bonds[n])[2] :
                   n \in {n \in 1..Len(mol.bonds) : sorted(mol.bonds[n])[1] = a}}
              \cup
              {Max2(mol.angles[n][1], mol.angles[n][3]) :
                   n \in {n \in 1..Len(mol.angles) :
                              Min2(mol.angles[n][1], mol.angles[n][3]) = a}})

\* a faulty lookup that scans the wildcard keys before it tries the reversed tuple
DihedralLookupWildcardFirst(ty, prm) ==
    LET w == wildcard_substituted(ty, prm.dihedral_types)
    IN  IF Has(prm.dihedral_types, ty)
        THEN [found |-> TRUE, val |-> Get(prm.dihedral_types, ty)]
        ELSE IF w # <<>> /\ Get(prm.dihedral_types, w) # <<>>
        THEN [found |-> TRUE, val |-> Get(prm.dihedral_types, w)]
        ELSE IF Has(prm.dihedral_types, Reverse(ty))
        THEN [found |-> TRUE, val |-> Get(prm.dihedral_types, Reverse(ty))]
        ELSE [found |-> FALSE, err |-> IF w = <<>> THEN "KeyError" ELSE "RuntimeError"]

\* the dihedral parameter list of a type tuple; found = FALSE stands for the
\* KeyError of the lookup of the empty tuple that wildcard_substituted
\* returns, or for the RuntimeError of an empty parameter list
DihedralLookup(ty, prm) ==
    LET w == wildcard_substituted(ty, prm.dihedral_types)
    IN  IF Has(prm.dihedral_types, ty)
        THEN [found |-> TRUE, val |-> Get(prm.dihedral_types, ty)]
        ELSE IF Has(prm.dihedral_types, Reverse(ty))
        THEN [found |-> TRUE, val |-> Get(prm.dihedral_types, Reverse(ty))]
        ELSE IF w # <<>> /\ Get(prm.dihedral_types, w) # <<>>
        THEN [found |-> TRUE, val |-> Get(prm.dihedral_types, w)]
        ELSE [found |-> FALSE, err |-> IF w = <<>> THEN "KeyError" ELSE "RuntimeError"]

DihedralRow(dihparam) ==
    Flatten([n \in 1..Len(dihparam) |->
                <<dihparam[n].phi_k, Radians(dihparam[n].phase), Num(dihparam[n].per)>>])

\* a faulty duplicate test that never finds a dihedral added before
NeverAlreadyAdded(stringrep, alreadyadded) == FALSE

\* lines 394-396: a dihedral over the same four atoms was added before
AlreadyAdded(stringrep, alreadyadded) == stringrep \in alreadyadded

\* the loop over mol.dihedrals from entry idx on
RECURSIVE DihedralLoop(_, _, _, _)
DihedralLoop(mol, prm, idx, acc) ==
    IF idx > Len(mol.dihedrals) \/ acc.err # "" THEN acc
    ELSE LET dihed     == mol.dihedrals[idx]
             stringrep == sorted(dihed)
             look      == DihedralLookup(TypesOf(mol, dihed), prm)
             i         == Min2(dihed[1], dihed[4])
             j         == Max2(dihed[1], dihed[4])
         IN  IF AlreadyAdded(stringrep, acc.alreadyadded)
             THEN DihedralLoop(mol, prm, idx + 1, acc)
             ELSE IF ~look.found
             THEN [acc EXCEPT !.err = look.err]
             ELSE DihedralLoop(mol, prm, idx + 1,
                      [acc EXCEPT
                          !.alreadyadded = @ \cup {stringrep},
                          !.s14_atom_list[i + 1] = Append(@, j),
                          !.s14_value_list[i + 1] = Append(@, look.val[1].scnb),
                          !.e14_atom_list[i + 1] = Append(@, j),
                          !.e14_value_list[i + 1] = Append(@, look.val[1].scee),
                          !.dihedral_params[idx] = DihedralRow(look.val)])

\* the improper parameters of one improper, with the center-detection retry
ImproperLookup(mol, prm, impr) ==
    LET first     == getImproperParameter(TypesOf(mol, impr), prm)
        center    == detectImproperCenter(impr, mol.bonds)
        notcenter == sorted(TypesOf(mol, SortedSeq(Range(impr) \ {center})))
        ty        == SubSeq(notcenter, 1, 2) \o TypesOf(mol, <<center>>)
                         \o SubSeq(notcenter, 3, Len(notcenter))
    IN  IF first.found THEN first
        ELSE IF center = -1 THEN [found |-> FALSE]
        ELSE getImproperParameter(ty, prm)

ImproperRow(look) ==
    IF look.tag = "improper_periodic_types"
    THEN <<look.val.phi_k, Radians(look.val.phase), Num(look.val.per)>>
    ELSE <<look.val.psi_k, Radians(look.val.psi_eq), 0>>

\* Coulomb's constant in kcal Angstrom / (mol e^2): 332.06
ELEC_FACTOR == 5313

\* init(mol, prm): the packed arrays, or the error of the first lookup that fails
init(mol, prm) ==
    LET natoms == mol.numAtoms
        uq     == uqtypes(mol)
        empty  == [a \in 1..natoms |-> <<>>]
        dl     == DihedralLoop(mol, prm, 1,
                      [alreadyadded |-> {}, err |-> "",
                       s14_atom_list |-> empty, s14_value_list |-> empty,
                       e14_atom_list |-> empty, e14_value_list |-> empty,
                       dihedral_params |-> [n \in 1..Len(mol.dihedrals) |-> <<>>]])
        impl(n) == ImproperLookup(mol, prm, mol.impropers[n])
        keyerror ==
            \/ \E n \in 1..Len(uq) : uq[n] \notin DOMAIN prm.atom_types
            \/ \E n \in 1..Len(mol.bonds) :
                   TypesOf(mol, mol.bonds[n]) \notin DOMAIN prm.bond_types
            \/ \E n \in 1..Len(mol.angles) :
                   TypesOf(mol, mol.angles[n]) \notin DOMAIN prm.angle_types
    IN  IF keyerror THEN [err |-> "KeyError"]
        ELSE IF dl.err # "" THEN [err |-> dl.err]
        ELSE IF \E n \in 1..Len(mol.impropers) : ~impl(n).found
        THEN [err |-> "RuntimeError"]
        ELSE
        [err       |-> "",
         typeint   |-> typeint(mol),
         excl      |-> nestedListToArray([a \in 1..natoms |-> ExclRow(mol, a - 1)], -1),
         nbfix     |-> [n \in 1..Len(prm.nbfix_types) |-> NbfixRow(mol, prm.nbfix_types[n])],
         sigma     |-> [n \in 1..Len(uq) |-> prm.atom_types[uq[n]].sigma],
         sigma14   |-> [n \in 1..Len(uq) |-> prm.atom_types[uq[n]].sigma_14],
         epsilon   |-> [n \in 1..Len(uq) |-> prm.atom_types[uq[n]].epsilon],
         epsilon14 |-> [n \in 1..Len(uq) |-> prm.atom_types[uq[n]].epsilon_14],
         s14a      |-> nestedListToArray(dl.s14_atom_list, -1),
         e14a      |-> nestedListToArray(dl.e14_atom_list, -1),
         s14v      |-> nestedListToArray(dl.s14_value_list, NaN),
         e14v      |-> nestedListToArray(dl.e14_value_list, NaN),
         bonda     |-> nestedListToArray(
                           [a \in 1..natoms |->
                               [n \in 1..Len(BondsAt(mol, a - 1)) |->
                                   sorted(BondsAt(mol, a - 1)[n])[2]]], -1),
         bondv     |-> nestedListToArray(
                           [a \in 1..natoms |->
                               Flatten([n \in 1..Len(BondsAt(mol, a - 1)) |->
                                   LET bt == prm.bond_types[
                                                 TypesOf(mol, BondsAt(mol, a - 1)[n])]
                                   IN  <<bt.k, bt.req>>])], NaN),
         ELEC_FACTOR |-> ELEC_FACTOR,
         charge    |-> mol.charge,
         angles    |-> mol.angles,
         angle_params |->
             [n \in 1..Len(mol.angles) |->
                 LET at == prm.angle_types[TypesOf(mol, mol.angles[n])]
                 IN  <<at.k, Radians(at.theteq)>>],
         dihedrals |-> mol.dihedrals,
         dihedral_params |-> nestedListToArray(dl.dihedral_params, NaN),
         impropers |-> mol.impropers,
         improper_params |-> [n \in 1..Len(mol.impropers) |-> ImproperRow(impl(n))]]

\* a faulty calculateSets that leaves the bonded terms in the molecule copy
CalculateSetsKeepsBonded(mol, betweensets) ==
    IF betweensets.none
    THEN [setA |-> <<>>, setB |-> <<>>, mol |-> mol]
    ELSE [setA |-> SortedSeq(betweensets.sel[1]),
          setB |-> SortedSeq(betweensets.sel[2]),
          mol  |-> mol]

\* calculateSets: the index arrays of the two selections (mol.atomselect returns
\* the selected indexes in ascending order) and the molecule copy, emptied of
\* its bonded terms when between-sets are given
calculateSets(mol, betweensets) ==
    IF betweensets.none
    THEN [setA |-> <<>>, setB |-> <<>>, mol |-> mol]
    ELSE [setA |-> SortedSeq(betweensets.sel[1]),
          setB |-> SortedSeq(betweensets.sel[2]),
          mol  |-> [mol EXCEPT !.bonds = <<>>, !.angles = <<>>,
                               !.dihedrals = <<>>, !.impropers = <<>>]]

(***************************************************************************)
(* Kernels.  A kernel returns its potential and force and, in err, the     *)
(* exception it raises ("" when none).                                     *)
(***************************************************************************)
\* numbautil.wrapDistance: the minimum image of d along an axis of length box
wrapDistance(d, box) ==
    IF box > 0
    THEN d - box * (Sgn(d) * ((Abs(Div(d, box)) + (FP \div 2)) \div FP))
    ELSE d

\* numbautil.wrapBondedDistance
wrapBondedDistance(d, box) == wrapDistance(d, box)

_ispaired(excl, i, j) ==
    \E e \in 1..Len(excl[i + 1]) :
        /\ excl[i + 1][e] = j
        /\ \A m \in 1..(e - 1) : excl[i + 1][m] # -1

\* the first element of a set array that is i or j, or -1
FirstOf(set, i, j) ==
    IF \E k \in 1..Len(set) : set[k] \in {i, j}
    THEN set[CHOOSE k \in 1..Len(set) :
                 set[k] \in {i, j} /\ \A m \in 1..(k - 1) : set[m] \notin {i, j}]
    ELSE -1

\* a faulty _insets that forgets the symmetric case: i in set1 and j in set2 only
InsetsOneWay(i, j, set1, set2) ==
    (\E k \in 1..Len(set1) : set1[k] = i) /\ (\E k \in 1..Len(set2) : set2[k] = j)

_insets(i, j, set1, set2) ==
    LET s1 == IF Len(set2) < Len(set1) THEN set2 ELSE set1
        s2 == IF Len(set2) < Len(set1) THEN set1 ELSE set2
        h1 == FirstOf(s1, i, j)
        h2 == FirstOf(s2, i, j)
        ifound1 == IF h1 = i THEN 1 ELSE 0
        jfound1 == IF h1 # i /\ h1 = j THEN 1 ELSE 0
        ifound == IF h2 = i THEN 2 ELSE ifound1
        jfound == IF h2 # i /\ h2 = j THEN 2 ELSE jfound1
    IN  IF ifound1 = 0 /\ jfound1 = 0 THEN FALSE
        ELSE ifound # 0 /\ jfound # 0 /\ ifound # jfound

\* the position (0-based) of j in row i of a packed index array, or -1
ColumnOf(arr, i, j) ==
    IF _ispaired(arr, i, j)
    THEN (CHOOSE e \in 1..Len(arr[i + 1]) :
              arr[i + 1][e] = j /\ \A m \in 1..(e - 1) : arr[i + 1][m] # j) - 1
    ELSE -1

\* a faulty row search that matches the types in the listed orientation only
NbfixIndexOneWay(nbfix, it, jt) ==
    LET hit(k) == nbfix[k][1] = it /\ nbfix[k][2] = jt
    IN  IF \E k \in 1..Len(nbfix) : hit(k)
        THEN (CHOOSE k \in 1..Len(nbfix) : hit(k) /\ \A m \in 1..(k - 1) : ~hit(m)) - 1
        ELSE -1

\* lines 724-730: the first row (0-based) of nbfix for the types it, jt, or -1
NbfixIndex(nbfix, it, jt) ==
    LET hit(k) == \/ (nbfix[k][1] = it /\ nbfix[k][2] = jt)
                  \/ (nbfix[k][1] = jt /\ nbfix[k][2] = it)
    IN  IF \E k \in 1..Len(nbfix) : hit(k)
        THEN (CHOOSE k \in 1..Len(nbfix) : hit(k) /\ \A m \in 1..(k - 1) : ~hit(m)) - 1
        ELSE -1

\* lines 762-767: the coefficients of the 12-6 form and the returned tuple
LJCoefficients(sig, eps, scale) ==
    LET s2  == Mul(sig, sig)
        s6  == Mul(Mul(s2, s2), s2)
        s12 == Mul(s6, s6)
    IN  [sig |-> sig, eps |-> eps, A |-> Mul(eps * 4, s12), B |-> Mul(eps * 4, s6),
         scale |-> scale]

\* lines 732-760, given the nbfix row and the column of j in row i of s14a
SigmaEpsilonOf(idx_nbfix, col, i, it, jt, a) ==
    LET found14  == col >= 0
        scale    == IF found14 THEN a.s14v[i + 1][col + 1] ELSE Num(1)
        sigmai   == IF found14 THEN a.sigma14[it + 1] ELSE a.sigma[it + 1]
        sigmaj   == IF found14 THEN a.sigma14[jt + 1] ELSE a.sigma[jt + 1]
        epsiloni == IF found14 THEN a.epsilon14[it + 1] ELSE a.epsilon[it + 1]
        epsilonj == IF found14 THEN a.epsilon14[jt + 1] ELSE a.epsilon[jt + 1]
        eps == IF idx_nbfix >= 0
               THEN (IF found14 THEN a.nbfix[idx_nbfix + 1][5]
                     ELSE a.nbfix[idx_nbfix + 1][3])
               ELSE Sqrt(Mul(epsiloni, epsilonj))
        sig == IF idx_nbfix >= 0
               THEN (IF found14 THEN a.nbfix[idx_nbfix + 1][6]
                     ELSE a.nbfix[idx_nbfix + 1][4])
               ELSE Mul(FP \div 2, sigmai + sigmaj)
    IN  LJCoefficients(sig, eps, scale)

_getSigmaEpsilon(i, j, it, jt, a) ==
    SigmaEpsilonOf(NbfixIndex(a.nbfix, it, jt), ColumnOf(a.s14a, i, j), i, it, jt, a)

\* lines 793-799, given the tuple se returned by _getSigmaEpsilon
LJTerm(se, dist) ==
    LET rinv1  == Div(Num(1), dist)
        rinv2  == Mul(rinv1, rinv1)
        rinv6  == Mul(Mul(rinv2, rinv2), rinv2)
        rinv12 == Mul(rinv6, rinv6)
    IN  [pot   |-> Div(Mul(se.A, rinv12) - Mul(se.B, rinv6), se.scale),
         force |-> Div(Mul(Mul(-12 * se.A, rinv12) + Mul(6 * se.B, rinv6), rinv1),
                       se.scale),
         scale |-> se.scale,
         sig   |-> se.sig,
         eps   |-> se.eps,
         err   |-> IF dist = 0 \/ se.scale = 0 THEN "ZeroDivisionError" ELSE ""]

_evaluate_lj(i, j, a, dist) ==
    LJTerm(_getSigmaEpsilon(i, j, a.typeint[i + 1], a.typeint[j + 1], a), dist)

_evaluate_harmonic_bonds(i, j, a, dist) ==
    LET col == ColumnOf(a.bonda, i, j)
        k0  == a.bondv[i + 1][col * 2 + 1]
        d0  == a.bondv[i + 1][col * 2 + 2]
        x   == dist - d0
    IN  IF col < 0 THEN [pot |-> 0, force |-> 0]
        ELSE [pot |-> Mul(k0, Mul(x, x)), force |-> Mul(2 * k0, x)]

_evaluate_elec(i, j, a, dist) ==
    LET col    == ColumnOf(a.e14a, i, j)
        scale  == IF col >= 0 THEN a.e14v[i + 1][col + 1] ELSE Num(1)
        denom  == 2 * a.solventDielectric + Num(1)
        cut3   == Mul(Mul(a.cutoff, a.cutoff), a.cutoff)
        krf    == Div(Mul(Div(Num(1), cut3), a.solventDielectric - Num(1)), denom)
        crf    == Div(Mul(Div(Num(1), a.cutoff), 3 * a.solventDielectric), denom)
        common == Div(Mul(Mul(a.ELEC_FACTOR, a.charge[i + 1]), a.charge[j + 1]), scale)
        dist2  == Mul(dist, dist)
        plain  == Div(Div(Mul(Mul(a.ELEC_FACTOR, a.charge[i + 1]), a.charge[j + 1]),
                          dist), scale)
    IN  IF a.rfa
        THEN [pot   |-> Mul(common, Div(Num(1), dist) + Mul(krf, dist2) - crf),
              force |-> Mul(common, Mul(2 * krf, dist) - Div(Num(1), dist2)),
              scale |-> scale,
              err   |-> IF cut3 = 0 \/ a.cutoff = 0 \/ scale = 0 \/ dist = 0 \/ dist2 = 0
                        THEN "ZeroDivisionError" ELSE ""]
        ELSE [pot   |-> plain,
              force |-> -Div(plain, dist),
              scale |-> scale,
              err   |-> IF dist = 0 \/ scale = 0 THEN "ZeroDivisionError" ELSE ""]

\* lines 882-885: the cosine clamped to [-1, 1]
Clamp(raw) == IF raw < -Num(1) THEN -Num(1) ELSE IF raw > Num(1) THEN Num(1) ELSE raw

\* lines 886-921, given the two bond vectors, their inverse norms and the cosine
AngleTerm(k0, theta0, r23, r21, norm23inv, norm21inv, cos_theta) ==
    LET delta_theta == Acos(cos_theta) - theta0
        sin_theta == Sqrt(Num(1) - Mul(cos_theta, cos_theta))
        coef      == IF sin_theta # 0 THEN Div(Mul(-2 * k0, delta_theta), sin_theta) ELSE 0
        force0    == [i \in Axes |->
                         Mul(Mul(coef, Mul(Mul(cos_theta, r21[i]), norm21inv)
                                       - Mul(r23[i], norm23inv)), norm21inv)]
        force2    == [i \in Axes |->
                         Mul(Mul(coef, Mul(Mul(cos_theta, r23[i]), norm23inv)
                                       - Mul(r21[i], norm21inv)), norm23inv)]
    IN  [pot   |-> Mul(Mul(k0, delta_theta), delta_theta),
         force |-> <<force0, [i \in Axes |-> -(force0[i] + force2[i])], force2>>,
         err   |-> IF Sqrt(dot(r23, r23)) = 0 \/ Sqrt(dot(r21, r21)) = 0
                   THEN "ZeroDivisionError" ELSE ""]

\* lines 872-881, given the two bond vectors
AngleOfVectors(k0, theta0, r23, r21) ==
    LET norm23inv == Div(Num(1), Sqrt(dot(r23, r23)))
        norm21inv == Div(Num(1), Sqrt(dot(r21, r21)))
    IN  AngleTerm(k0, theta0, r23, r21, norm23inv, norm21inv,
                  Clamp(Mul(Mul(dot(r23, r21), norm21inv), norm23inv)))

_evaluate_angles(pos, angle_params, box) ==
    AngleOfVectors(angle_params[1], angle_params[2],
                   [i \in Axes |-> wrapBondedDistance(pos[3][i] - pos[2][i], box[i])],
                   [i \in Axes |-> wrapBondedDistance(pos[1][i] - pos[2][i], box[i])])

\* the dihedral angle of three consecutive bond vectors
DihedralOfVectors(r12, r23, r34) ==
    LET c1  == cross(r12, r23)
        c2  == cross(r23, r34)
        len == Mul(Sqrt(dot(c1, c1)), Sqrt(dot(c2, c2)))
        sgn == IF dot(cross(c1, c2), r23) < 0 THEN -1 ELSE 1
    IN  [phi |-> sgn * Acos(Clamp(Div(dot(c1, c2), len))),
         r12 |-> r12, r23 |-> r23, r34 |-> r34]

\* numbautil.dihedralAngleFull: the dihedral angle of four positions and the
\* three bond vectors between them
dihedralAngleFull(pos, box) ==
    DihedralOfVectors(
        [i \in Axes |-> wrapBondedDistance(pos[2][i] - pos[1][i], box[i])],
        [i \in Axes |-> wrapBondedDistance(pos[3][i] - pos[2][i], box[i])],
        [i \in Axes |-> wrapBondedDistance(pos[4][i] - pos[3][i], box[i])])

\* the number of components of a packed torsion parameter row
NTorsions(torsionparam) ==
    IF \E i \in 1..Len(torsionparam) : torsionparam[i] = NaN
    THEN ((CHOOSE i \in 1..Len(torsionparam) :
               torsionparam[i] = NaN /\ \A m \in 1..(i - 1) : torsionparam[m] # NaN) - 1)
             \div 3
    ELSE Len(torsionparam) \div 3

\* the potential and dE/dphi of components n.. of a torsion parameter row
RECURSIVE TorsionSum(_, _, _, _)
TorsionSum(torsionparam, ntorsions, n, phi) ==
    IF n >= ntorsions THEN [pot |-> 0, coef |-> 0]
    ELSE LET k0   == torsionparam[n * 3 + 1]
             phi0 == torsionparam[n * 3 + 2]
             per  == torsionparam[n * 3 + 3]
             diff == phi - phi0
             wrap == IF diff < -PI THEN diff + 2 * PI
                     ELSE IF diff > PI THEN diff - 2 * PI ELSE diff
             rest == TorsionSum(torsionparam, ntorsions, n + 1, phi)
         IN  IF per > 0
             THEN [pot  |-> Mul(k0, Num(1) + Cos(Mul(per, phi) - phi0)) + rest.pot,
                   coef |-> Mul(Mul(-per, k0), Sin(Mul(per, phi) - phi0)) + rest.coef]
             ELSE [pot  |-> Mul(k0, Mul(wrap, wrap)) + rest.pot,
                   coef |-> Mul(2 * k0, wrap) + rest.coef]

\* faulty rows of the force array: the third atom misses its share of s
TorsionRowsLostS(force1, force4, s) ==
    <<VNeg(force1), VAdd(force1, s), force4, VNeg(force4)>>

\* lines 972-975: the rows of the force array
TorsionRows(force1, force4, s) ==
    <<VNeg(force1), VAdd(force1, s), VSub(force4, s), VNeg(force4)>>

\* lines 954-971: the forces on the four atoms, given the potential and dE/dphi
\* (sum) and the three bond vectors
TorsionForces(sum, r12, r23, r34) ==
    LET dEdTheta    == sum.coef
        cross1      == cross(r12, r23)
        cross2      == cross(r23, r34)
        norm2Delta2 == dot(r23, r23)
        normDelta2  == Sqrt(norm2Delta2)
        normCross1  == dot(cross1, cross1)
        normCross2  == dot(cross2, cross2)
        normBC      == normDelta2
        ff0         == Div(Mul(-dEdTheta, normBC), normCross1)
        ff3         == Div(Mul(dEdTheta, normBC), normCross2)
        ff1         == Div(dot(r12, r23), norm2Delta2)
        ff2         == Div(dot(r34, r23), norm2Delta2)
        force1      == VScale(ff0, cross1)
        force4      == VScale(ff3, cross2)
        s           == VSub(VScale(ff1, force1), VScale(ff2, force4))
    IN  [pot   |-> sum.pot,
         force |-> TorsionRows(force1, force4, s),
         err   |-> IF normCross1 = 0 \/ normCross2 = 0 \/ norm2Delta2 = 0
                   THEN "ZeroDivisionError" ELSE ""]

\* lines 933-951, given the tuple d returned by dihedralAngleFull
TorsionOfAngle(torsionparam, d) ==
    TorsionForces(TorsionSum(torsionparam, NTorsions(torsionparam), 0, d.phi),
                  d.r12, d.r23, d.r34)

_evaluate_torsion(pos, torsionparam, box) ==
    TorsionOfAngle(torsionparam, dihedralAngleFull(pos, box))

(***************************************************************************)
(* _ffevaluate.  The loops run over a record st of the three output        *)
(* arrays, the scratch buffer direction_vec, the exception raised so far   *)
(* (err), calls, the log of the pairs that reached the pair terms, and     *)
(* terms, the log of the bonded terms evaluated.  a holds self._args: the  *)
(* arrays of init, set1, set2, cutoff, rfa and solventDielectric.          *)
(***************************************************************************)
Position(coords, atom, f) == [k \in Axes |-> coords[atom + 1][k][f + 1]]

BoxOf(box, f) == [k \in Axes |-> box[k][f + 1]]

\* a faulty scratch buffer that adds to what the previous pair left in it
DirectionVecAdds(old, coords, box, f, i, j) ==
    [k \in Axes |->
        old[k] + wrapDistance(coords[i + 1][k][f + 1] - coords[j + 1][k][f + 1],
                              box[k][f + 1])]

\* lines 614-618: every component of the scratch buffer is written for the pair
DirectionVec(old, coords, box, f, i, j) ==
    [k \in Axes |->
        wrapDistance(coords[i + 1][k][f + 1] - coords[j + 1][k][f + 1], box[k][f + 1])]

\* adds a term's forces and energy share to each of its atoms, from atom m on
RECURSIVE Scatter(_, _, _, _, _, _, _)
Scatter(st, f, atoms, force, c, share, m) ==
    IF m > Len(atoms) THEN st
    ELSE Scatter(
             [st EXCEPT
                 !.forces[atoms[m] + 1] =
                     [k \in Axes |-> [@[k] EXCEPT ![f + 1] = @ + force[m][k]]],
                 !.atmnrg[atoms[m] + 1][c + 1][f + 1] = @ + share],
             f, atoms, force, c, share, m + 1)

\* lines 628-673: the pair's energies and forces added to the two atoms
PairAccumulate(st, f, i, j, direction_unitvec, isbonded, isexcluded, bo, lj, el) ==
    LET pot_bo == IF isbonded THEN bo.pot ELSE 0
        pot_lj == IF isexcluded THEN 0 ELSE lj.pot
        pot_el == IF isexcluded THEN 0 ELSE el.pot
        coeff  == (IF isbonded THEN bo.force ELSE 0)
                  + (IF isexcluded THEN 0 ELSE lj.force + el.force)
        half   == FP \div 2
    IN  [st EXCEPT
            !.calls = @ \cup
                {[f |-> f, i |-> i, j |-> j, bond |-> isbonded,
                  nonbonded |-> ~isexcluded,
                  scale_lj |-> IF isexcluded THEN 0 ELSE lj.scale,
                  sig |-> IF isexcluded THEN 0 ELSE lj.sig,
                  eps |-> IF isexcluded THEN 0 ELSE lj.eps,
                  scale_el |-> IF isexcluded THEN 0 ELSE el.scale]},
            !.energies[1][f + 1] = @ + pot_bo,
            !.energies[2][f + 1] = @ + pot_lj,
            !.energies[3][f + 1] = @ + pot_el,
            !.atmnrg[i + 1] =
                [@ EXCEPT ![1][f + 1] = @ + Mul(pot_bo, half),
                          ![2][f + 1] = @ + Mul(pot_lj, half),
                          ![3][f + 1] = @ + Mul(pot_el, half)],
            !.atmnrg[j + 1] =
                [@ EXCEPT ![1][f + 1] = @ + Mul(pot_bo, half),
                          ![2][f + 1] = @ + Mul(pot_lj, half),
                          ![3][f + 1] = @ + Mul(pot_el, half)],
            !.forces[i + 1] =
                [k \in Axes |->
                    [@[k] EXCEPT ![f + 1] = @ - Mul(coeff, direction_unitvec[k])]],
            !.forces[j + 1] =
                [k \in Axes |->
                    [@[k] EXCEPT ![f + 1] = @ + Mul(coeff, direction_unitvec[k])]]]

\* lines 628-663: the three pair kernels; an exception of a kernel ends the
\* evaluation, and the unit vector of a zero distance is not a number ("nan")
PairTerms(st, f, i, j, direction_unitvec, dist, isbonded, isexcluded, bo, lj, el) ==
    IF ~isexcluded /\ lj.err # "" THEN [st EXCEPT !.err = lj.err]
    ELSE IF ~isexcluded /\ el.err # "" THEN [st EXCEPT !.err = el.err]
    ELSE IF dist = 0 THEN [st EXCEPT !.err = "nan"]
    ELSE PairAccumulate(st, f, i, j, direction_unitvec, isbonded, isexcluded, bo, lj, el)

\* lines 620-626: the unit vector of the pair and the cutoff test, st holding the
\* scratch buffer already written for the pair
PairDistance(st, f, i, j, a, dist, isbonded, isexcluded) ==
    IF a.cutoff # 0 /\ dist > a.cutoff THEN st
    ELSE PairTerms(st, f, i, j, [k \in Axes |-> Div(st.direction_vec[k], dist)], dist,
                   isbonded, isexcluded,
                   _evaluate_harmonic_bonds(i, j, a, dist),
                   _evaluate_lj(i, j, a, dist),
                   _evaluate_elec(i, j, a, dist))

\* lines 613-619: the scratch buffer written for the pair
PairVector(st, f, i, j, a, direction_vec, isbonded, isexcluded) ==
    PairDistance([st EXCEPT !.direction_vec = direction_vec], f, i, j, a,
                 Sqrt(dot(direction_vec, direction_vec)), isbonded, isexcluded)

\* the body of the pair loop for one pair i < j of frame f
PairStep(st, f, i, j, coords, box, a) ==
    LET isbonded   == _ispaired(a.bonda, i, j)
        isexcluded == _ispaired(a.excl, i, j)
        insets     == _insets(i, j, a.set1, a.set2)
        usersets   == Len(a.set1) > 0 \/ Len(a.set2) > 0
    IN  IF usersets /\ ~insets THEN st
        ELSE IF isexcluded /\ ~isbonded THEN st
        ELSE PairVector(st, f, i, j, a,
                        DirectionVec(st.direction_vec, coords, box, f, i, j),
                        isbonded, isexcluded)

\* for i in range(natoms): for j in range(i + 1, natoms), from the pair (i, j) on
RECURSIVE PairLoop(_, _, _, _, _, _, _)
PairLoop(st, f, i, j, coords, box, a) ==
    IF i >= Len(coords) \/ st.err # "" THEN st
    ELSE IF j >= Len(coords) THEN PairLoop(st, f, i + 1, i + 2, coords, box, a)
    ELSE PairLoop(PairStep(st, f, i, j, coords, box, a), f, i, j + 1, coords, box, a)

\* lines 683-687 and 694-698: a bonded term's energy and forces added to its atoms
BondedAccumulate(st, f, atoms, term, c, n) ==
    IF term.err # "" THEN [st EXCEPT !.err = term.err]
    ELSE Scatter([st EXCEPT !.energies[c + 1][f + 1] = @ + term.pot,
                            !.terms = @ \cup {[f |-> f, c |-> c, atoms |-> atoms]}],
                 f, atoms, term.force, c, Div(term.pot, Num(n)), 1)

\* a faulty angle loop body that gives each atom a quarter of the angle energy
AngleStepQuarters(st, f, n, coords, box, a) ==
    IF \E m \in 1..3 : a.angles[n][m] >= Len(coords) THEN [st EXCEPT !.err = "OutOfBounds"]
    ELSE BondedAccumulate(
             st, f, a.angles[n],
             _evaluate_angles([m \in 1..3 |-> Position(coords, a.angles[n][m], f)],
                              a.angle_params[n], BoxOf(box, f)),
             3, 4)

\* the body of the angle loop.  An atom index past coords is read outside the
\* array or raises IndexError, as the build decides: "OutOfBounds" stands for
\* either, and nothing more is said about that call
AngleStep(st, f, n, coords, box, a) ==
    IF \E m \in 1..3 : a.angles[n][m] >= Len(coords) THEN [st EXCEPT !.err = "OutOfBounds"]
    ELSE BondedAccumulate(
             st, f, a.angles[n],
             _evaluate_angles([m \in 1..3 |-> Position(coords, a.angles[n][m], f)],
                              a.angle_params[n], BoxOf(box, f)),
             3, 3)

\* the body of the dihedral loop (c = 4) and of the improper loop (c = 5)
TorsionStep(st, f, atoms, params, c, coords, box) ==
    IF \E m \in 1..4 : atoms[m] >= Len(coords) THEN [st EXCEPT !.err = "OutOfBounds"]
    ELSE BondedAccumulate(
             st, f, atoms,
             _evaluate_torsion([m \in 1..4 |-> Position(coords, atoms[m], f)],
                               params, BoxOf(box, f)),
             c, 4)

RECURSIVE AngleLoop(_, _, _, _, _, _)
AngleLoop(st, f, n, coords, box, a) ==
    IF n > Len(a.angles) \/ st.err # "" THEN st
    ELSE AngleLoop(AngleStep(st, f, n, coords, box, a), f, n + 1, coords, box, a)

RECURSIVE DihedralsLoop(_, _, _, _, _, _)
DihedralsLoop(st, f, n, coords, box, a) ==
    IF n > Len(a.dihedrals) \/ st.err # "" THEN st
    ELSE DihedralsLoop(
             TorsionStep(st, f, a.dihedrals[n], a.dihedral_params[n], 4, coords, box),
             f, n + 1, coords, box, a)

RECURSIVE ImpropersLoop(_, _, _, _, _, _)
ImpropersLoop(st, f, n, coords, box, a) ==
    IF n > Len(a.impropers) \/ st.err # "" THEN st
    ELSE ImpropersLoop(
             TorsionStep(st, f, a.impropers[n], a.improper_params[n], 5, coords, box),
             f, n + 1, coords, box, a)

\* the bonded terms of frame f, skipped when between-sets are in use
BondedTerms(st, f, coords, box, a) ==
    IF Len(a.set1) > 0 \/ Len(a.set2) > 0 THEN st
    ELSE ImpropersLoop(
             DihedralsLoop(AngleLoop(st, f, 1, coords, box, a), f, 1, coords, box, a),
             f, 1, coords, box, a)

\* for f in range(nframes), from frame f on
RECURSIVE FrameLoop(_, _, _, _, _)
FrameLoop(st, f, coords, box, a) ==
    IF f >= Len(coords[1][1]) \/ st.err # "" THEN st
    ELSE FrameLoop(BondedTerms(PairLoop(st, f, 0, 1, coords, box, a), f, coords, box, a),
                   f + 1, coords, box, a)

_ffevaluate(coords, box, a) ==
    LET natoms  == Len(coords)
        nframes == Len(coords[1][1])
        zeros   == [f \in 1..nframes |-> 0]
    IN  FrameLoop([direction_vec |-> Zero3,
                   energies |-> [c \in 1..6 |-> zeros],
                   forces   |-> [i \in 1..natoms |-> [k \in Axes |-> zeros]],
                   atmnrg   |-> [i \in 1..natoms |-> [c \in 1..6 |-> zeros]],
                   err      |-> "",
                   calls    |-> {},
                   terms    |-> {}],
                  0, coords, box, a)

(***************************************************************************)
(* Coordinates and boxes handed to calculate                               *)
(***************************************************************************)
\* two geometries on the corners of the unit cube (no three atoms in line)
GeomA == <<<<0, 0, 0>>, <<1, 0, 0>>, <<1, 1, 0>>, <<1, 1, 1>>, <<0, 1, 1>>, <<0, 0, 1>>>>

GeomB == <<<<0, 0, 0>>, <<1, 0, 0>>, <<1, 1, 0>>, <<0, 1, 0>>, <<0, 1, 1>>, <<1, 0, 1>>>>

Geoms == {GeomA, GeomB}

MaxFrames == 2

\* a (natoms, 3, nframes) array: frame f holds the first natoms points of geoms[f]
CoordsOf(geoms, natoms) ==
    [i \in 1..natoms |-> [k \in Axes |-> [f \in 1..Len(geoms) |-> Num(geoms[f][i][k])]]]

\* a (natoms, 3) array
Coords2D(geom, natoms) == [i \in 1..natoms |-> [k \in Axes |-> Num(geom[i][k])]]

FrameLists == UNION {[1..n -> Geoms] : n \in 1..MaxFrames}

\* a (rows, Len(cols)) box array whose column f holds cols[f]
BoxOfShape(rows, cols) == [k \in 1..rows |-> [f \in 1..Len(cols) |-> cols[f][((k - 1) % 3) + 1]]]

NoBox == [none |-> TRUE, data |-> <<>>]

GivenBox(data) == [none |-> FALSE, data |-> data]

\* the (3, nframes) boxes tried with nframes frames: no box in any frame, the
\* periodic box in every frame, and the two in turn
GoodBoxes(nframes) ==
    {GivenBox(BoxOfShape(3, [f \in 1..nframes |-> Zero3])),
     GivenBox(BoxOfShape(3, [f \in 1..nframes |-> <<32, 0, 48>>])),
     GivenBox(BoxOfShape(3, [f \in 1..nframes |->
                                IF f % 2 = 1 THEN Zero3 ELSE <<32, 0, 48>>]))}

\* boxes of shape (2, nframes) and (3, nframes + 1)
BadBoxes(nframes) ==
    {GivenBox(BoxOfShape(2, [f \in 1..nframes |-> Zero3])),
     GivenBox(BoxOfShape(3, [f \in 1..(nframes + 1) |-> Zero3]))}

Coords3(data) == [ndim |-> 3, data |-> data]

\* the (coords, box) arguments of the calls: every frame list with no box and
\* with each well-shaped box, one frame with the ill-shaped boxes, and one
\* frame that lacks the last atom
Calls ==
    UNION {{[coords |-> Coords3(CoordsOf(g, NAtoms)), box |-> b] :
                b \in {NoBox} \cup GoodBoxes(Len(g))} : g \in FrameLists}
    \cup {[coords |-> Coords3(CoordsOf(<<GeomA>>, NAtoms)), box |-> b] : b \in BadBoxes(1)}
    \cup {[coords |-> Coords3(CoordsOf(<<GeomA>>, NAtoms - 1)), box |-> NoBox]}

\* the calls on a molecule of NAtoms + 1 atoms
CallsLarge ==
    {[coords |-> Coords3(CoordsOf(<<g>>, NAtoms + 1)), box |-> NoBox] : g \in Geoms}

\* the calls that hand calculate a single frame as a (natoms, 3) array
Calls2D == {[coords |-> [ndim |-> 2, data |-> Coords2D(g, NAtoms)], box |-> NoBox] :
                g \in Geoms}

(***************************************************************************)
(* The evaluator                                                           *)
(***************************************************************************)
\* the default of the solventDielectric argument, 78.5
solventDielectric == 1256

\* lines 152-159: self._args from the arrays of init, or the exception of init
ArgsOf(sets, ini, cutoff, rfa) ==
    IF ini.err # "" THEN [err |-> ini.err]
    ELSE ini @@ [set1 |-> sets.setA, set2 |-> sets.setB, cutoff |-> cutoff,
                 rfa |-> rfa, solventDielectric |-> solventDielectric]

\* line 152, given what calculateSets returned
ArgsOfSets(sets, prm, cutoff, rfa) == ArgsOf(sets, init(sets.mol, prm), cutoff, rfa)

\* FFEvaluate.__init__(mol, prm, betweensets, cutoff, rfa)
NewArgs(mol, prm, betweensets, cutoff, rfa) ==
    ArgsOfSets(calculateSets(mol, betweensets), prm, cutoff, rfa)

\* lines 219-221: the returned arrays, or the exception of the evaluation
Outcome(res) ==
    IF res.err # "" THEN [err |-> res.err, status |-> "raised"]
    ELSE [err |-> "", status |-> "returned", energies |-> res.energies,
          forces |-> res.forces, atmnrg |-> res.atmnrg, calls |-> res.calls,
          terms |-> res.terms]

\* lines 205-206: a (natoms, 3) array becomes one frame
Coords3D(coords) ==
    IF coords.ndim = 2
    THEN [i \in 1..Len(coords.data) |-> [k \in Axes |-> <<coords.data[i][k]>>]]
    ELSE coords.data

\* lines 208-209: an omitted box is zeros of shape (3, nframes)
BoxArray(box, nframes) ==
    IF box.none THEN [k \in Axes |-> [f \in 1..nframes |-> 0]] ELSE box.data

\* lines 211-212: the shape test of the box
BoxShapeOk(box2, nframes) == Len(box2) = 3 /\ Len(box2[1]) = nframes

\* lines 211-221, given the 3-D coordinates and the box array
Evaluate(coords3, box2, a) ==
    IF ~BoxShapeOk(box2, Len(coords3[1][1]))
    THEN [err |-> "ValueError", status |-> "raised"]
    ELSE Outcome(_ffevaluate(coords3, box2, a))

\* lines 208-221, given the 3-D coordinates
CalculateFrames(coords3, box, a) ==
    Evaluate(coords3, BoxArray(box, Len(coords3[1][1])), a)

\* FFEvaluate.calculate(coords, box) on an evaluator with arguments a
calculate(coords, box, a) == CalculateFrames(Coords3D(coords), box, a)

VARIABLES
    mol,          \* the caller's molecule
    prm,          \* the caller's parameter set
    betweensets,  \* the betweensets argument: none, or the two selections
    cutoff,       \* the cutoff argument
    rfa,          \* the rfa argument
    pc,           \* "new", "ready" (constructed) or "failed" (constructor raised)
    args,         \* self._args, or the exception the constructor raised
    call,         \* the arguments of the last calculate
    out           \* what the last calculate returned or raised

vars == <<mol, prm, betweensets, cutoff, rfa, pc, args, call, out>>

MaxSel == 2

Selections == {S \in SUBSET Atoms : Cardinality(S) <= MaxSel}

NoSets == [none |-> TRUE, sel |-> <<{}, {}>>]

\* cutoff = 0 (off) or 1.5
Cutoffs == {0, 24}

\* a cutoff below zero: -1.5
NegativeCutoffs == {-24}

NoArgs == [err |-> ""]

NoCall == [coords |-> [ndim |-> 0, data |-> <<>>], box |-> NoBox]

NoOut == [err |-> "", status |-> "none"]

Init ==
    /\ pc = "new"
    /\ args = NoArgs
    /\ call = NoCall
    /\ out = NoOut
    /\ \/ /\ betweensets = NoSets
          /\ mol \in Mols
          /\ prm \in ParameterSets
          /\ cutoff \in Cutoffs
          /\ rfa \in BOOLEAN
       \/ /\ betweensets \in {[none |-> FALSE, sel |-> <<A, B>>] :
                                  A \in Selections, B \in Selections}
          /\ mol \in {MolChain, MolStar}
          /\ prm = PrmBase
          /\ \/ cutoff = 0 /\ rfa = FALSE
             \/ cutoff = 24 /\ rfa = TRUE
       \/ /\ betweensets = NoSets
          /\ mol \in IndexMols \cup {MolGas, MolPair, MolChain, MolStar, MolRing,
                                     Reversed(MolChain)}
          /\ prm \in IndexParameterSets
          /\ cutoff = 0
          /\ rfa = FALSE
       \/ /\ betweensets = NoSets
          /\ mol \in {MolGas, MolChain}
          /\ prm = PrmBase
          /\ cutoff \in NegativeCutoffs
          /\ rfa = FALSE

\* FFEvaluate.__init__
Construct ==
    /\ pc = "new"
    /\ args' = NewArgs(mol, prm, betweensets, cutoff, rfa)
    /\ pc' = IF args'.err # "" THEN "failed" ELSE "ready"
    /\ UNCHANGED <<mol, prm, betweensets, cutoff, rfa, call, out>>

Calculate ==
    /\ pc = "ready"
    /\ out.status = "none"
    /\ \/ \E c \in Calls :
              /\ call' = c
              /\ out' = calculate(c.coords, c.box, args)
       \/ \E c \in Calls2D :
              /\ call' = c
              /\ out' = calculate(c.coords, c.box, args)
       \/ \E c \in CallsLarge :
              /\ mol.numAtoms = NAtoms + 1
              /\ call' = c
              /\ out' = calculate(c.coords, c.box, args)
    /\ UNCHANGED <<mol, prm, betweensets, cutoff, rfa, pc, args>>

\* the caller drops the result of a call; the evaluator is ready for the next
Discard ==
    /\ pc = "ready"
    /\ out.status # "none"
    /\ call' = NoCall
    /\ out' = NoOut
    /\ UNCHANGED <<mol, prm, betweensets, cutoff, rfa, pc, args>>

Next == Construct \/ Calculate \/ Discard

Spec == Init /\ [][Next]_vars

(***************************************************************************)
(* Vocabulary of the properties                                            *)
(***************************************************************************)
Returned == out.status = "returned"

\* the frames and the atoms of the arrays the last call returned
Frames == 0..(Len(out.energies[1]) - 1)

OutAtoms == 0..(Len(out.forces) - 1)

PairRecords(f, i, j) == {r \in out.calls : r.f = f /\ r.i = i /\ r.j = j}

SetA == betweensets.sel[1]

SetB == betweensets.sel[2]

IsBond(m, i, j) == \E n \in 1..Len(m.bonds) : Range(m.bonds[n]) = {i, j}

Is13(m, i, j) == \E n \in 1..Len(m.angles) : {m.angles[n][1], m.angles[n][3]} = {i, j}

Is14(m, i, j) ==
    \E n \in 1..Len(m.dihedrals) : {m.dihedrals[n][1], m.dihedrals[n][4]} = {i, j}

\* the parameters of the first listed dihedral of m that ends in i and j
DihedralOfEnds(m, p, i, j) ==
    DihedralLookup(
        TypesOf(m, m.dihedrals[CHOOSE n \in 1..Len(m.dihedrals) :
                                   /\ {m.dihedrals[n][1], m.dihedrals[n][4]} = {i, j}
                                   /\ \A q \in 1..(n - 1) :
                                          {m.dihedrals[q][1], m.dihedrals[q][4]} # {i, j}]),
        p).val[1]

\* the distance of atoms i and j in frame f of the last call
CallDistance(f, i, j) ==
    LET d == [k \in Axes |->
                 wrapDistance(Coords3D(call.coords)[i + 1][k][f + 1]
                                - Coords3D(call.coords)[j + 1][k][f + 1],
                              BoxArray(call.box, Len(out.energies[1]))[k][f + 1])]
    IN  Sqrt(dot(d, d))

WithinCutoff(f, i, j) == cutoff = 0 \/ CallDistance(f, i, j) <= cutoff

\* the sum over the atoms of component c (0-based) of atmnrg in frame f
AtomSum(c, f) == SumSeq([i \in 1..Len(out.atmnrg) |-> out.atmnrg[i][c + 1][f + 1]])

\* the terms of component c evaluated in frame f, and what the shares of one
\* term may lose to rounding: a unit less than the number of shares
TermCount(c, f) ==
    CASE c = 0 -> Cardinality({r \in out.calls : r.f = f /\ r.bond})
      [] c \in {1, 2} -> Cardinality({r \in out.calls : r.f = f /\ r.nonbonded})
      [] c = 3 -> Len(args.angles)
      [] c = 4 -> Len(args.dihedrals)
      [] c = 5 -> Len(args.impropers)

ShareLoss(c) == CASE c \in {0, 1, 2} -> 1 [] c = 3 -> 2 [] c \in {4, 5} -> 3

\* frame f of the arguments of the last call, as a call of its own
FrameCoords(f) ==
    [i \in 1..Len(call.coords.data) |->
        [k \in Axes |-> <<call.coords.data[i][k][f + 1]>>]]

FrameBox(f) ==
    IF call.box.none THEN NoBox
    ELSE GivenBox([k \in 1..Len(call.box.data) |-> <<call.box.data[k][f + 1]>>])

FrameOutcome(f) == CalculateFrames(FrameCoords(f), FrameBox(f), args)

\* the molecule without the last entry of its dihedral list
WithoutLastDihedral(m) ==
    [m EXCEPT !.dihedrals = SubSeq(m.dihedrals, 1, Len(m.dihedrals) - 1)]

\* the last dihedral of the molecule repeats an earlier entry
LastDihedralRepeats ==
    /\ Len(mol.dihedrals) >= 2
    /\ \E n \in 1..(Len(mol.dihedrals) - 1) :
           mol.dihedrals[n] = mol.dihedrals[Len(mol.dihedrals)]

(***************************************************************************)
(* Properties                                                              *)
(***************************************************************************)
\* C1: with between-sets A and B (and no cutoff), a pair i < j reaches the pair
\* kernel if and only if one of the two is in A and the other in B, for every
\* choice of A and B
C1_PairsBetweenSets ==
    (~betweensets.none /\ cutoff = 0 /\ Returned) =>
        \A f \in Frames : \A i \in OutAtoms : \A j \in OutAtoms :
            i < j =>
                ((\E r \in PairRecords(f, i, j) : r.nonbonded)
                    <=> ((i \in SetA /\ j \in SetB) \/ (i \in SetB /\ j \in SetA)))

\* C2: an evaluator constructed with the two between-sets swapped gives, for
\* the same call, the same evaluated pairs, energies, forces and per-atom
\* energies (or raises the same exception)
C2_SwapSets ==
    (pc = "ready" /\ ~betweensets.none /\ out.status # "none") =>
        out = calculate(call.coords, call.box,
                        NewArgs(mol, prm, [none |-> FALSE, sel |-> <<SetB, SetA>>],
                                cutoff, rfa))

C2_Witness ==
    /\ ~betweensets.none
    /\ Returned
    /\ Cardinality(SetA) = 2
    /\ Cardinality(SetB) = 2
    /\ SetA # SetB
    /\ SetA \cap SetB # {}
    /\ out.calls # {}

\* C3: with between-sets configured no bonded term is evaluated in any frame:
\* the bond, angle, dihedral and improper rows of energies and of atmnrg are
\* zero, no pair gets the harmonic bond term and no angle, dihedral or improper
\* is evaluated, so that no force comes from a bonded term
C3_BondedSuppressed ==
    (~betweensets.none /\ Returned) =>
        /\ \A f \in Frames : \A c \in {0, 3, 4, 5} :
               /\ out.energies[c + 1][f + 1] = 0
               /\ \A i \in OutAtoms : out.atmnrg[i + 1][c + 1][f + 1] = 0
        /\ \A r \in out.calls : ~r.bond
        /\ out.terms = {}

C3_Witness ==
    /\ ~betweensets.none
    /\ Returned
    /\ IsBond(mol, 0, 2)
    /\ Len(mol.impropers) > 0
    /\ \E r \in PairRecords(0, 0, 2) : r.nonbonded
    /\ out.energies[2][1] # 0

\* C4: without between-sets, for every pair i < j within the cutoff: the LJ and
\* electrostatic terms are computed iff the pair is neither a bond nor the two
\* ends of an angle; a bonded pair gets the harmonic bond term only; a pure
\* 1-3 pair gets nothing; a pair that is only the two ends of a dihedral has
\* its LJ divided by scnb and its electrostatics by scee of that dihedral
C4_Exclusions ==
    (betweensets.none /\ Returned) =>
        \A f \in Frames : \A i \in OutAtoms : \A j \in OutAtoms :
            (i < j /\ WithinCutoff(f, i, j)) =>
                /\ (\E r \in PairRecords(f, i, j) : r.nonbonded)
                       <=> (~IsBond(mol, i, j) /\ ~Is13(mol, i, j))
                /\ (\E r \in PairRecords(f, i, j) : r.bond) <=> IsBond(mol, i, j)
                /\ IsBond(mol, i, j) => \A r \in PairRecords(f, i, j) : ~r.nonbonded
                /\ (Is13(mol, i, j) /\ ~IsBond(mol, i, j)) => PairRecords(f, i, j) = {}
                /\ (Is14(mol, i, j) /\ ~IsBond(mol, i, j) /\ ~Is13(mol, i, j)) =>
                       \A r \in PairRecords(f, i, j) :
                           /\ r.scale_lj = DihedralOfEnds(mol, prm, i, j).scnb
                           /\ r.scale_el = DihedralOfEnds(mol, prm, i, j).scee

C4_Witness ==
    /\ betweensets.none
    /\ Returned
    /\ cutoff # 0
    /\ IsBond(mol, 0, 1)
    /\ Is13(mol, 0, 2)
    /\ Is14(mol, 0, 3) /\ ~IsBond(mol, 0, 3) /\ ~Is13(mol, 0, 3)
    /\ \E r \in PairRecords(0, 0, 3) : r.nonbonded /\ r.scale_lj = 32 /\ r.scale_el = 19
    /\ \E r \in PairRecords(0, 0, 1) : r.bond
    /\ PairRecords(0, 0, 2) = {}

\* C5: for every frame and component, energies[c, f] equals the sum over the
\* atoms of atmnrg[i, c, f] up to the rounding of the shares (halves, thirds,
\* quarters) of each term
C5_Decomposition ==
    Returned =>
        \A f \in Frames : \A c \in 0..5 :
            Abs(out.energies[c + 1][f + 1] - AtomSum(c, f))
                <= TermCount(c, f) * ShareLoss(c)

C5_Witness ==
    /\ Returned
    /\ \A c \in 0..4 : out.energies[c + 1][1] # 0
    /\ \E c \in 0..2 : out.energies[c + 1][1] # AtomSum(c, 0)
    /\ out.energies[4][1] # AtomSum(3, 0)

\* C6: in every frame the forces summed over the atoms are zero along each axis
C6_NewtonThird ==
    Returned =>
        \A f \in Frames : \A k \in Axes :
            SumSeq([i \in 1..Len(out.forces) |-> out.forces[i][k][f + 1]]) = 0

C6_Witness ==
    /\ Returned
    /\ \E t \in out.terms : t.c = 3
    /\ \E t \in out.terms : t.c = 4
    /\ out.energies[5][1] # 0
    /\ \E r \in out.calls : r.nonbonded
    /\ \E r \in out.calls : r.bond
    /\ \A i \in OutAtoms : \E k \in Axes : out.forces[i + 1][k][1] # 0

\* C7: a call with several frames returns, for each frame, what a call with
\* that frame alone returns; it raises only what the call of some frame raises
C7_FrameIndependence ==
    (pc = "ready" /\ out.status # "none" /\ call.coords.ndim = 3
         /\ out.err # "ValueError") =>
        /\ Returned =>
               \A f \in Frames :
                   LET one == FrameOutcome(f)
                   IN  /\ one.status = "returned"
                       /\ \A c \in 1..6 : out.energies[c][f + 1] = one.energies[c][1]
                       /\ \A i \in OutAtoms :
                              /\ \A k \in Axes :
                                     out.forces[i + 1][k][f + 1] = one.forces[i + 1][k][1]
                              /\ \A c \in 1..6 :
                                     out.atmnrg[i + 1][c][f + 1] = one.atmnrg[i + 1][c][1]
        /\ ~Returned =>
               \E f \in 0..(Len(call.coords.data[1][1]) - 1) :
                   LET one == FrameOutcome(f)
                   IN  one.status = "raised" /\ one.err = out.err

C7_Witness ==
    /\ Returned
    /\ Len(out.energies[1]) = 2
    /\ ~call.box.none
    /\ out.energies[2][1] # out.energies[2][2]
    /\ out.energies[4][1] # 0
    /\ out.energies[4][2] # 0

\* C8: a molecule whose dihedral list ends with a repeat of an earlier entry
\* gives the evaluator of the molecule without the repeat: the repeat gets a
\* parameter row of sentinels only, the 1-4 arrays are the same, and every
\* call returns the same energies, forces and per-atom energies
C8_RepeatedDihedral ==
    (pc = "ready" /\ betweensets.none /\ LastDihedralRepeats) =>
        LET base == NewArgs(WithoutLastDihedral(mol), prm, betweensets, cutoff, rfa)
        IN  /\ \A e \in 1..Len(args.dihedral_params[Len(mol.dihedrals)]) :
                   args.dihedral_params[Len(mol.dihedrals)][e] = NaN
            /\ args.s14a = base.s14a
            /\ args.e14a = base.e14a
            /\ out.status # "none" => out = calculate(call.coords, call.box, base)

C8_Witness ==
    /\ LastDihedralRepeats
    /\ Returned
    /\ out.energies[5][1] # 0
    /\ \E r \in out.calls : r.scale_lj \notin {0, FP}

\* C9: an evaluator with rfa = true and cutoff = 0 is never constructed
C9_RfaNeedsCutoff == (rfa /\ cutoff = 0) => pc # "ready"

\* C10: a call whose box is not of shape (3, F) for coords of F frames, or
\* whose coords hold another number of atoms than the molecule, raises
C10_ShapesValidated ==
    (out.status # "none"
         /\ \/ ~BoxShapeOk(BoxArray(call.box, Len(Coords3D(call.coords)[1][1])),
                           Len(Coords3D(call.coords)[1][1]))
            \/ Len(call.coords.data) # mol.numAtoms) =>
        out.status = "raised"

\* some bond, angle, dihedral or improper of m has a type tuple that no lookup
\* stage of its kind resolves in the tables p
UnresolvedTerm(m, p) ==
    \/ \E n \in 1..Len(m.bonds) : TypesOf(m, m.bonds[n]) \notin DOMAIN p.bond_types
    \/ \E n \in 1..Len(m.angles) : TypesOf(m, m.angles[n]) \notin DOMAIN p.angle_types
    \/ \E n \in 1..Len(m.dihedrals) : ~DihedralLookup(TypesOf(m, m.dihedrals[n]), p).found
    \/ \E n \in 1..Len(m.impropers) : ~ImproperLookup(m, p, m.impropers[n]).found

\* C11: without between-sets, the constructor raises and leaves no packed
\* arrays whenever a bond, angle, dihedral or improper of the topology has a
\* type tuple that no lookup stage resolves
C11_UnresolvedFails ==
    (betweensets.none /\ pc # "new" /\ UnresolvedTerm(mol, prm)) =>
        (pc = "failed" /\ DOMAIN args = {"err"})

\* C12: without between-sets, a pair that is bonded or not excluded passes the
\* cutoff test unless cutoff > 0 and r > cutoff: a cutoff of zero or below
\* skips no pair, and a skipped pair leaves no term in any array
C12_CutoffRule ==
    (betweensets.none /\ Returned) =>
        \A f \in Frames : \A i \in OutAtoms : \A j \in OutAtoms :
            (i < j /\ (IsBond(mol, i, j) \/ ~Is13(mol, i, j))) =>
                ((PairRecords(f, i, j) # {})
                    <=> ~(cutoff > 0 /\ CallDistance(f, i, j) > cutoff))

\* no atom index is listed twice in a row of a packed index array
NoRepeatInRows(arr) ==
    \A i \in 1..Len(arr) : \A e1 \in 1..Len(arr[i]) : \A e2 \in 1..Len(arr[i]) :
        (e1 # e2 /\ arr[i][e1] # -1) => arr[i][e1] # arr[i][e2]

\* C13: in the arrays of a constructed evaluator the 1-4 VdW list and the 1-4
\* electrostatic list of every atom hold each partner at most once
C13_OneScalePerPair ==
    pc = "ready" => (NoRepeatInRows(args.s14a) /\ NoRepeatInRows(args.e14a))

\* atom c of the quadruple is bonded, in molecule m, to its three other atoms
IsCenter(m, quad, c) ==
    /\ c \in Range(quad)
    /\ \A b \in Range(quad) \ {c} : IsBond(m, b, c)

\* C14: in every improper record of a constructed evaluator, an atom bonded to
\* the three other atoms of the quadruple is at position 2
C14_CenterAtPositionTwo ==
    (pc = "ready" /\ betweensets.none) =>
        \A n \in 1..Len(args.impropers) : \A c \in Atoms :
            IsCenter(mol, args.impropers[n], c) => args.impropers[n][3] = c

\* the key at position n of an ordered table holds X and agrees with the type
\* tuple ty at every position that is not X
WildcardMatch(table, n, ty) ==
    /\ TypeX \in Range(table[n].key)
    /\ \A k \in 1..Len(ty) : table[n].key[k] \in {TypeX, ty[k]}

\* the position in the table of the entry the stated order resolves ty to:
\* the exact key, else the reversed key, else the first matching wildcard key;
\* 0 when no stage matches
StatedDihedralEntry(table, ty) ==
    LET at(key) == CHOOSE n \in 1..Len(table) : table[n].key = key
        wild    == {n \in 1..Len(table) : WildcardMatch(table, n, ty)}
    IN  IF \E n \in 1..Len(table) : table[n].key = ty THEN at(ty)
        ELSE IF \E n \in 1..Len(table) : table[n].key = Reverse(ty) THEN at(Reverse(ty))
        ELSE IF wild # {} THEN CHOOSE n \in wild : \A m \in wild : n <= m
        ELSE 0

\* the dihedrals of m that are resolved: those whose four atoms are not the
\* atoms of an earlier entry of the list
ResolvedDihedrals(m) ==
    {n \in 1..Len(m.dihedrals) :
        \A q \in 1..(n - 1) : Range(m.dihedrals[q]) # Range(m.dihedrals[n])}

\* row n of a padded float array holds exactly the values of row
HoldsRow(arr, n, row) ==
    /\ Len(arr[n]) >= Len(row)
    /\ \A k \in 1..Len(arr[n]) : arr[n][k] = IF k <= Len(row) THEN row[k] ELSE NaN

\* C15: a resolved dihedral gets the parameters of the exact key of its type
\* tuple if there is one, else of the reversed key, else of the first wildcard
\* key in table order that matches position by position; the constructor
\* raises when no stage matches
C15_DihedralOrder ==
    (betweensets.none /\ pc # "new") =>
        LET table == prm.dihedral_types
            entry(n) == StatedDihedralEntry(table, TypesOf(mol, mol.dihedrals[n]))
        IN  /\ (\E n \in ResolvedDihedrals(mol) : entry(n) = 0) => pc = "failed"
            /\ pc = "ready" =>
                   \A n \in ResolvedDihedrals(mol) :
                       /\ entry(n) # 0
                       /\ HoldsRow(args.dihedral_params, n, DihedralRow(table[entry(n)].val))
                       /\ LET i == Min2(mol.dihedrals[n][1], mol.dihedrals[n][4])
                              j == Max2(mol.dihedrals[n][1], mol.dihedrals[n][4])
                          IN  \E e \in 1..Len(args.s14a[i + 1]) :
                                  /\ args.s14a[i + 1][e] = j
                                  /\ args.s14v[i + 1][e] = table[entry(n)].val[1].scnb
                                  /\ args.e14v[i + 1][e] = table[entry(n)].val[1].scee

\* a constructed evaluator with a dihedral resolved by the reversed key while
\* a wildcard key listed earlier matches its type tuple too
C15_Witness ==
    /\ pc = "ready"
    /\ betweensets.none
    /\ \E n \in ResolvedDihedrals(mol) :
           LET ty == TypesOf(mol, mol.dihedrals[n])
               e  == StatedDihedralEntry(prm.dihedral_types, ty)
           IN  /\ e # 0
               /\ prm.dihedral_types[e].key = Reverse(ty)
               /\ prm.dihedral_types[e].key # ty
               /\ \E w \in 1..(e - 1) : WildcardMatch(prm.dihedral_types, w, ty)
               /\ HoldsRow(args.dihedral_params, n,
                           DihedralRow(prm.dihedral_types[e].val))

\* the position in the NBFix table of the first entry for the unordered pair
\* of types t1, t2; 0 when there is none
StatedNbfixEntry(table, t1, t2) ==
    LET hits == {n \in 1..Len(table) : table[n].key \in {<<t1, t2>>, <<t2, t1>>}}
    IN  IF hits = {} THEN 0 ELSE CHOOSE n \in hits : \A m \in hits : n <= m

\* the first position of j in row i of a packed index array; 0 when absent
FirstListed(arr, i, j) ==
    LET hits == {e \in 1..Len(arr[i + 1]) : arr[i + 1][e] = j}
    IN  IF hits = {} THEN 0 ELSE CHOOSE e \in hits : \A m \in hits : e <= m

\* the sigma, epsilon and scale the stated rule gives the pair i < j
StatedLJ(i, j) ==
    LET ti  == mol.atomtype[i + 1]
        tj  == mol.atomtype[j + 1]
        n   == StatedNbfixEntry(prm.nbfix_types, ti, tj)
        e   == FirstListed(args.s14a, i, j)
        ai  == prm.atom_types[ti]
        aj  == prm.atom_types[tj]
        fix == prm.nbfix_types[n].val
    IN  [sig   |-> IF n # 0
                   THEN Mul(IF e # 0 THEN fix[3] ELSE fix[1], RminToSigma)
                   ELSE IF e # 0 THEN Mul(FP \div 2, ai.sigma_14 + aj.sigma_14)
                   ELSE Mul(FP \div 2, ai.sigma + aj.sigma),
         eps   |-> IF n # 0
                   THEN (IF e # 0 THEN fix[4] ELSE fix[2])
                   ELSE IF e # 0 THEN Sqrt(Mul(ai.epsilon_14, aj.epsilon_14))
                   ELSE Sqrt(Mul(ai.epsilon, aj.epsilon)),
         scale |-> IF e # 0 THEN args.s14v[i + 1][e] ELSE Num(1)]

\* C16: every pair that gets a Lennard-Jones term gets it with the sigma and
\* epsilon of the first NBFix entry for its unordered pair of types (the 1-4
\* values when j is in the 1-4 VdW list of i), else with the combined
\* per-type values (the 1-4 values for a 1-4 pair), and with the scale of the
\* 1-4 VdW list, 1 when the pair is not listed
C16_LJParameters ==
    Returned =>
        \A r \in out.calls :
            r.nonbonded =>
                LET st == StatedLJ(r.i, r.j)
                IN  r.sig = st.sig /\ r.eps = st.eps /\ r.scale_lj = st.scale

\* a call that evaluated a 1-4 pair with an NBFix entry listed in the other
\* orientation, whose 1-4 values differ from its plain values, with a scale
\* other than 1
C16_Witness ==
    /\ Returned
    /\ \E r \in out.calls :
           LET ti == mol.atomtype[r.i + 1]
               tj == mol.atomtype[r.j + 1]
               n  == StatedNbfixEntry(prm.nbfix_types, ti, tj)
           IN  /\ r.nonbonded
               /\ n # 0
               /\ prm.nbfix_types[n].key = <<tj, ti>>
               /\ ti # tj
               /\ FirstListed(args.s14a, r.i, r.j) # 0
               /\ prm.nbfix_types[n].val[4] # prm.nbfix_types[n].val[2]
               /\ r.eps = prm.nbfix_types[n].val[4]
               /\ r.scale_lj # Num(1)

\* the arrangements of the positions 0..3 that keep position 2 in place
FixedCenterPerms ==
    {q \in [1..4 -> 0..3] : q[3] = 2 /\ \A a, b \in 1..4 : a # b => q[a] # q[b]}

\* q comes before r in the enumeration order of the arrangements
PermBefore(q, r) ==
    \E k \in 1..4 : q[k] < r[k] /\ \A m \in 1..(k - 1) : q[m] = r[m]

\* the first entry of an ordered table with key ty (wild = FALSE) or with a
\* wildcard key matching ty (wild = TRUE); 0 when there is none
StatedStage(table, ty, wild) ==
    LET hits == {n \in 1..Len(table) :
                    IF wild THEN WildcardMatch(table, n, ty) ELSE table[n].key = ty}
    IN  IF hits = {} THEN 0 ELSE CHOOSE n \in hits : \A m \in hits : n <= m

\* what the four stages give one arrangement ty of the type tuple: the row
\* (k, psi_eq, 0) of the harmonic table or (k, phase, per) of the periodic one
StatedImproperTry(p, ty) ==
    LET harmonic(n) == [found |-> TRUE, tag |-> "improper_types",
                        row |-> <<p.improper_types[n].val.psi_k,
                                  Radians(p.improper_types[n].val.psi_eq), 0>>]
        periodic(n) == [found |-> TRUE, tag |-> "improper_periodic_types",
                        row |-> <<p.improper_periodic_types[n].val.phi_k,
                                  Radians(p.improper_periodic_types[n].val.phase),
                                  Num(p.improper_periodic_types[n].val.per)>>]
        eh == StatedStage(p.improper_types, ty, FALSE)
        ep == StatedStage(p.improper_periodic_types, ty, FALSE)
        wh == StatedStage(p.improper_types, ty, TRUE)
        wp == StatedStage(p.improper_periodic_types, ty, TRUE)
    IN  IF eh # 0 THEN harmonic(eh)
        ELSE IF ep # 0 THEN periodic(ep)
        ELSE IF wh # 0 THEN harmonic(wh)
        ELSE IF wp # 0 THEN periodic(wp)
        ELSE [found |-> FALSE]

\* the result of the first arrangement, in enumeration order, with any match
StatedImproper(p, ty) ==
    LET try(q)  == StatedImproperTry(p, [k \in 1..4 |-> ty[q[k] + 1]])
        matches == {q \in FixedCenterPerms : try(q).found}
    IN  IF matches = {} THEN [found |-> FALSE]
        ELSE try(CHOOSE q \in matches : \A r \in matches \ {q} : PermBefore(q, r))

\* the type tuple with the detected center spliced into position 2 between
\* the sorted types of the three other atoms; <<>> when no atom is the center
RelocatedTypes(m, impr) ==
    LET centers == {k \in 1..4 : IsCenter(m, impr, impr[k])}
        c       == impr[CHOOSE k \in centers : \A q \in centers : k <= q]
        others  == sorted(TypesOf(m, SortedSeq(Range(impr) \ {c})))
    IN  IF centers = {} THEN <<>>
        ELSE <<others[1], others[2], m.atomtype[c + 1], others[3]>>

\* C17: the parameters of an improper are those of the first arrangement of
\* its type tuple, among the six that keep position 2 and in enumeration
\* order, that matches the harmonic table exactly, else the periodic table
\* exactly, else a wildcard key of the harmonic table, else a wildcard key of
\* the periodic table; when no arrangement matches, the lookup raises and the
\* tuple with the detected center in position 2 is looked up the same way
C17_ImproperOrder ==
    (betweensets.none /\ pc # "new") =>
        \A n \in 1..Len(mol.impropers) :
            LET own   == StatedImproper(prm, TypesOf(mol, mol.impropers[n]))
                again == RelocatedTypes(mol, mol.impropers[n])
            IN  IF own.found THEN pc = "ready" => args.improper_params[n] = own.row
                ELSE IF again # <<>> /\ StatedImproper(prm, again).found
                THEN pc = "ready" =>
                         args.improper_params[n] = StatedImproper(prm, again).row
                ELSE pc = "failed"

\* a constructed evaluator with an improper whose listed type tuple is an
\* exact key of the periodic table and matches a wildcard key of the
\* harmonic table, while a later arrangement is an exact harmonic key
C17_Witness ==
    /\ pc = "ready"
    /\ betweensets.none
    /\ \E n \in 1..Len(mol.impropers) :
           LET ty == TypesOf(mol, mol.impropers[n])
           IN  /\ StatedStage(prm.improper_types, ty, FALSE) = 0
               /\ StatedStage(prm.improper_periodic_types, ty, FALSE) # 0
               /\ StatedStage(prm.improper_types, ty, TRUE) # 0
               /\ \E q \in FixedCenterPerms :
                      StatedStage(prm.improper_types,
                                  [k \in 1..4 |-> ty[q[k] + 1]], FALSE) # 0
               /\ args.improper_params[n] = StatedImproper(prm, ty).row
               /\ StatedImproper(prm, ty).tag = "improper_periodic_types"

\* every row of a packed index array is empty
EmptyRows(arr) == \A i \in 1..Len(arr) : \A e \in 1..Len(arr[i]) : arr[i][e] = -1

\* with between-sets, the evaluator holds no bond, exclusion or 1-4 entry and
\* every pair within the cutoff that has an atom in each set gets unscaled
\* Lennard-Jones and electrostatic terms and no bond term
CrossSetPairsInFull ==
    (~betweensets.none /\ pc = "ready") =>
        /\ EmptyRows(args.excl) /\ EmptyRows(args.bonda)
        /\ EmptyRows(args.s14a) /\ EmptyRows(args.e14a)
        /\ Returned =>
               \A f \in Frames : \A i \in OutAtoms : \A j \in OutAtoms :
                   (/\ i < j
                    /\ (i \in SetA /\ j \in SetB) \/ (i \in SetB /\ j \in SetA)
                    /\ WithinCutoff(f, i, j)) =>
                       \E r \in PairRecords(f, i, j) :
                           /\ r.nonbonded /\ ~r.bond
                           /\ r.scale_lj = Num(1) /\ r.scale_el = Num(1)

\* C18: with between-sets the topology copy is emptied before indexing, every
\* cross-set pair is evaluated with full, unscaled Lennard-Jones and
\* electrostatics whatever it is in the caller's topology, and the caller's
\* molecule is never changed
C18_CrossSetsUnscaled == [](CrossSetPairsInFull) /\ [][mol' = mol]_vars

=============================================================================
